---- MODULE Spec2Model ----
(***************************************************************************)
(* A model of juni-farm's marker computation and caching core:             *)
(*   - BCTPYSpheresEstimator (markers/bctpy/bctpy_spheres_estimator.py),   *)
(*     the singleton whose fit_transform scopes an lru_cache to the path   *)
(*     of the input it saw last;                                           *)
(*   - InstantPhaseConnectivityBase                                        *)
(*     (markers/time_varying/instant_phase_connectivity_base.py), the      *)
(*     marker that validates its filter parameters at construction and     *)
(*     computes the instantaneous phase coherence tensor;                  *)
(*   - BCTPYSpheres (markers/bctpy/bctpy_spheres.py), the marker that      *)
(*     evaluates the requested graph metrics on a connectivity matrix;     *)
(*   - the data grabbers HCPD (datagrabber/hcp_d.py) and                   *)
(*     HCP_YA_Concatenated (datagrabber/hcp_ya_concatenated.py).           *)
(* The specifications share the variables:                                 *)
(*   Spec        the estimator under a sequential driver,                  *)
(*   SpecConc    the estimator called from several threads,                *)
(*   SpecSingle  the estimator and the users of its constructor,           *)
(*   SpecIPC     the life of a phase-coherence marker,                     *)
(*   SpecBCT     the life of a graph-metric marker,                        *)
(*   SpecHCPD    the life of an HCPD grabber,                              *)
(*   SpecYA      the life of an HCP_YA_Concatenated grabber.               *)
(***************************************************************************)
EXTENDS Integers, Sequences, FiniteSets, TLC

VARIABLES
    file_path,  \* BCTPYSpheresEstimator._file_path
    cache,      \* the table of the lru_cache that wraps _compute
    last,       \* the fit_transform call that ended last, with its outcome
    prev,       \* the fit_transform call that ended before `last`
    th,         \* per thread: the frame of its running fit_transform call
    marker,     \* the InstantPhaseConnectivityBase object (or the error of its constructor)
    out,        \* what the marker's last compute call gave its caller
    bct,        \* the BCTPYSpheres object
    bout,       \* what the last compute call of that object gave its caller
    single,     \* the registry of @singleton and the objects its users hold
    grab        \* the data grabbers: the objects and what their calls returned

vars == <<file_path, cache, last, prev, th, marker, out, bct, bout, single, grab>>

(***************************************************************************)
(* Bounds of the model.                                                    *)
(***************************************************************************)
NumPaths == 2     \* distinct input paths
NumData == 2      \* distinct data objects an input can carry
NumCoords == 2    \* distinct values of the coords parameter
NumThreads == 2   \* concurrent callers in SpecConc
MaxFreq == 2      \* highpass and lowpass range over -1..MaxFreq
MaxOrder == 1     \* order ranges over 0..MaxOrder
MaxTR == 1        \* an explicit tr ranges over 0..MaxTR
MaxZoom == 3      \* a header's fourth zoom ranges over 0..MaxZoom
MaxT == 2         \* timepoints of an aggregated series (at least 2)
MaxR == 2         \* regions of an aggregated series

None == -99       \* Python's None, outside every numeric range of the model
NaN == 99         \* IEEE-754 not-a-number, outside every numeric range of the model

Paths == 1..NumPaths
Data == 1..NumData
Threads == 1..NumThreads

(***************************************************************************)
(* The computation parameters fit_transform receives.  coords stands for   *)
(* the hashable ones (coords, radius, allow_overlap, agg_method,           *)
(* cor_method); agg_method_params stands for the Optional[Dict] ones       *)
(* (agg_method_params, cor_method_params, masks): None or a dict.          *)
(***************************************************************************)
ParamSets == [coords : 1..NumCoords, agg_method_params : {"None", "dict"}]

Range(s) == {s[i] : i \in DOMAIN s}

(***************************************************************************)
(* Python's binding of a call's arguments to a function's parameters.      *)
(* params: the parameter names in order; required: those with no default;  *)
(* npos: the number of positional arguments; kws: the keyword names.       *)
(***************************************************************************)
BindArguments(params, required, npos, kws) ==
    IF npos > Len(params) THEN "TypeError"                        \* too many positional arguments
    ELSE IF kws \ Range(params) # {} THEN "TypeError"             \* unexpected keyword argument
    ELSE IF \E i \in 1..npos : params[i] \in kws THEN "TypeError" \* multiple values for an argument
    ELSE IF \E r \in required :
              r \notin kws /\ ~(\E i \in 1..npos : params[i] = r)
         THEN "TypeError"                                         \* missing required argument
    ELSE "ok"

\* def _compute(coords, radius=None, ..., masks=None): no self, no data.
ComputeParameters ==
    <<"coords", "radius", "allow_overlap", "agg_method", "agg_method_params",
      "cor_method", "cor_method_params", "masks">>

ComputeRequired == {"coords"}

\* self._compute(...) is a bound method: the instance is the one positional argument.
CallPositional == 1

\* self._compute(data=bold_data, coords=coords, ..., masks=masks)
CallKeywords ==
    {"data", "coords", "radius", "allow_overlap", "agg_method", "agg_method_params",
     "cor_method", "cor_method_params", "masks"}

\* junifer's marker fit_transform(self, input, storage=None), called on line 55
\* as estimator.fit_transform(): the instance and nothing else.
MarkerFitTransformParameters == <<"self", "input", "storage">>

MarkerFitTransformRequired == {"self", "input"}

(***************************************************************************)
(* The body of _compute: builds a FunctionalConnectivitySpheres and calls  *)
(* its fit_transform with no input.  An outcome is [raised, value].        *)
(***************************************************************************)
ComputeBody(params) ==
    LET bound == BindArguments(MarkerFitTransformParameters, MarkerFitTransformRequired, 1, {})
    IN  IF bound # "ok"
        THEN [raised |-> TRUE, value |-> bound]
        ELSE [raised |-> FALSE, value |-> "fc"]

\* The call of the wrapped function as fit_transform writes it (lines 117-127).
InvokeCompute(params) ==
    LET bound == BindArguments(ComputeParameters, ComputeRequired, CallPositional, CallKeywords)
    IN  IF bound # "ok"
        THEN [raised |-> TRUE, value |-> bound]
        ELSE ComputeBody(params)

(***************************************************************************)
(* functools.lru_cache(maxsize=None, typed=True) around _compute.          *)
(***************************************************************************)
\* The key is made of the positional arguments (the instance) and of every
\* keyword argument, data included; making it hashes each of them.
Hashable(params) == params.agg_method_params # "dict"

LruKey(data, params) == <<"self", data, params>>

Cached(c, key) == \E e \in c : e.key = key

CachedValue(c, key) == (CHOOSE e \in c : e.key = key).value

CachedSource(c, key) == (CHOOSE e \in c : e.key = key).path

\* A failure of the wrapped function is stored as if it were its value.
LruCallNegative(c, data, params, recorded) ==
    IF ~Hashable(params)
    THEN [cache |-> c, invoked |-> FALSE, raised |-> TRUE, value |-> "TypeError",
          source |-> None]
    ELSE LET key == LruKey(data, params)
         IN  IF Cached(c, key)
             THEN [cache |-> c, invoked |-> FALSE,
                   raised |-> CachedValue(c, key) = "TypeError",
                   value |-> CachedValue(c, key), source |-> CachedSource(c, key)]
             ELSE LET r == InvokeCompute(params)
                  IN  [cache |-> c \cup {[key |-> key, value |-> r.value, path |-> recorded]},
                       invoked |-> TRUE, raised |-> r.raised, value |-> r.value,
                       source |-> recorded]

\* One call through the wrapper: making the key raises on an unhashable
\* argument; a hit returns the stored value; a miss calls the wrapped function
\* and stores its value only when it returns one.  `recorded` is _file_path at
\* the call: it is kept with the entry, and `source` is the recorded path under
\* which the returned value was computed (ghost fields).
LruCall(c, data, params, recorded) ==
    IF ~Hashable(params)
    THEN [cache |-> c, invoked |-> FALSE, raised |-> TRUE, value |-> "TypeError",
          source |-> None]
    ELSE LET key == LruKey(data, params)
         IN  IF Cached(c, key)
             THEN [cache |-> c, invoked |-> FALSE, raised |-> FALSE,
                   value |-> CachedValue(c, key), source |-> CachedSource(c, key)]
             ELSE LET r == InvokeCompute(params)
                  IN  IF r.raised
                      THEN [cache |-> c, invoked |-> TRUE, raised |-> TRUE,
                            value |-> r.value, source |-> None]
                      ELSE [cache |-> c \cup {[key |-> key, value |-> r.value,
                                               path |-> recorded]},
                            invoked |-> TRUE, raised |-> FALSE, value |-> r.value,
                            source |-> recorded]

\* _compute.cache_clear()
CacheClear(c) == {}

(***************************************************************************)
(* BCTPYSpheresEstimator.fit_transform, lines 105-127.                     *)
(***************************************************************************)
\* if self._file_path != bold_path
PathChanged(recorded, bold_path) == recorded # bold_path

\* The path is compared and the cache cleared, and the new path is not recorded.
RecordedAfterKeep(recorded, bold_path) == recorded

\* _file_path after lines 108-115
RecordedAfter(recorded, bold_path) ==
    IF PathChanged(recorded, bold_path) THEN bold_path ELSE recorded

\* the cache after lines 108-115
CacheAfterCheck(c, recorded, bold_path) ==
    IF PathChanged(recorded, bold_path) THEN CacheClear(c) ELSE c

\* The two notices are exchanged.
NoticeSwapped(recorded, bold_path) ==
    IF PathChanged(recorded, bold_path) THEN "using" ELSE "removing"

\* the notice logged on lines 109 and 115
Notice(recorded, bold_path) ==
    IF PathChanged(recorded, bold_path) THEN "removing" ELSE "using"

\* What one call does, in the order of lines 108-117: the notice, then (on a
\* changed path) the clearing and the recording, then the call of _compute.
Steps(recorded, bold_path) ==
    <<Notice(recorded, bold_path)>>
    \o (IF PathChanged(recorded, bold_path) THEN <<"cache_clear", "record">> ELSE <<>>)
    \o <<"compute">>

NoCall ==
    [valid |-> FALSE, path |-> None, data |-> None,
     params |-> [coords |-> 1, agg_method_params |-> "None"],
     recorded |-> None, steps |-> <<>>,
     changed |-> FALSE, notice |-> "none", invoked |-> FALSE,
     raised |-> FALSE, value |-> "none", source |-> None]

CallRecord(bold_path, bold_data, params, recorded, r) ==
    [valid |-> TRUE, path |-> bold_path, data |-> bold_data, params |-> params,
     recorded |-> recorded, steps |-> Steps(recorded, bold_path),
     changed |-> PathChanged(recorded, bold_path),
     notice |-> Notice(recorded, bold_path),
     invoked |-> r.invoked, raised |-> r.raised, value |-> r.value,
     source |-> r.source]

\* A call whose computation fails puts the path and the cache back.
FitTransformRollback(bold_path, bold_data, params) ==
    LET recorded == RecordedAfter(file_path, bold_path)
        r == LruCall(CacheAfterCheck(cache, file_path, bold_path), bold_data, params, recorded)
    IN  /\ file_path' = IF r.raised THEN file_path ELSE recorded
        /\ cache' = IF r.raised THEN cache ELSE r.cache
        /\ prev' = last
        /\ last' = CallRecord(bold_path, bold_data, params, file_path, r)
        /\ UNCHANGED <<th, marker, out, bct, bout, single, grab>>

\* One whole call under the sequential driver.
FitTransform(bold_path, bold_data, params) ==
    LET recorded == RecordedAfter(file_path, bold_path)
        r == LruCall(CacheAfterCheck(cache, file_path, bold_path), bold_data, params, recorded)
    IN  /\ file_path' = recorded
        /\ cache' = r.cache
        /\ prev' = last
        /\ last' = CallRecord(bold_path, bold_data, params, file_path, r)
        /\ UNCHANGED <<th, marker, out, bct, bout, single, grab>>

(***************************************************************************)
(* fit_transform called from several threads.  The interpreter may switch  *)
(* threads between any two statements; each statement is one step.         *)
(***************************************************************************)
Idle == [pc |-> "idle", path |-> None, data |-> None,
         params |-> [coords |-> 1, agg_method_params |-> "None"],
         raised |-> FALSE, value |-> "none", source |-> None]

\* lines 105-106: the call is entered and its locals bound
Begin(t, bold_path, bold_data, params) ==
    /\ th[t].pc = "idle"
    /\ th' = [th EXCEPT ![t] = [pc |-> "check", path |-> bold_path, data |-> bold_data,
                                params |-> params, raised |-> FALSE, value |-> "none",
                                source |-> None]]
    /\ UNCHANGED <<file_path, cache, last, prev, marker, out, bct, bout, single, grab>>

\* line 108: _file_path is read and compared
Check(t) ==
    /\ th[t].pc = "check"
    /\ th' = [th EXCEPT ![t].pc =
                 IF PathChanged(file_path, th[t].path) THEN "clear" ELSE "compute"]
    /\ UNCHANGED <<file_path, cache, last, prev, marker, out, bct, bout, single, grab>>

\* line 111
Clear(t) ==
    /\ th[t].pc = "clear"
    /\ cache' = CacheClear(cache)
    /\ th' = [th EXCEPT ![t].pc = "record"]
    /\ UNCHANGED <<file_path, last, prev, marker, out, bct, bout, single, grab>>

\* line 113
Record(t) ==
    /\ th[t].pc = "record"
    /\ file_path' = th[t].path
    /\ th' = [th EXCEPT ![t].pc = "compute"]
    /\ UNCHANGED <<cache, last, prev, marker, out, bct, bout, single, grab>>

\* lines 117-127: the call through the wrapper, and the return
Compute(t) ==
    /\ th[t].pc = "compute"
    /\ LET r == LruCall(cache, th[t].data, th[t].params, file_path)
       IN  /\ cache' = r.cache
           /\ th' = [th EXCEPT ![t].pc = "idle", ![t].raised = r.raised,
                               ![t].value = r.value, ![t].source = r.source]
    /\ UNCHANGED <<file_path, last, prev, marker, out, bct, bout, single, grab>>

(***************************************************************************)
(* IEEE-754 arithmetic on the model's numbers.  Angles are counted in      *)
(* quarter turns (pi/2), so that the cosine of every angle of the grid is  *)
(* one of -1, 0, 1.                                                        *)
(***************************************************************************)
FSub(a, b) == IF a = NaN \/ b = NaN THEN NaN ELSE a - b

FEq(a, b) == a # NaN /\ b # NaN /\ a = b

\* np.cos
FCos(d) ==
    IF d = NaN THEN NaN
    ELSE IF d % 4 = 0 THEN 1
    ELSE IF d % 4 = 2 THEN -1
    ELSE 0

RECURSIVE SumTo(_, _)
SumTo(col, n) == IF n = 0 THEN 0 ELSE col[n] + SumTo(col, n - 1)

(***************************************************************************)
(* InstantPhaseConnectivityBase.__init__, lines 76-89.                     *)
(***************************************************************************)
NoSelf == [highpass |-> None, lowpass |-> None, order |-> None, tr |-> None]

NoArgs == NoSelf

NoMarker == [state |-> "none", error |-> "none", args |-> NoArgs, self |-> NoSelf]

Raised(msg, args) == [state |-> "error", error |-> msg, args |-> args, self |-> NoSelf]

\* highpass equal to lowpass is let through.
IPCInitStrict(highpass, lowpass, order, tr) ==
    LET args == [highpass |-> highpass, lowpass |-> lowpass, order |-> order, tr |-> tr]
    IN  IF highpass < 0 THEN Raised("Highpass must be positive or 0", args)
        ELSE IF lowpass <= 0 THEN Raised("Lowpass must be positive", args)
        ELSE IF order <= 0 THEN Raised("Order must be positive", args)
        ELSE IF highpass > lowpass THEN Raised("Highpass must be lower than lowpass", args)
        ELSE [state |-> "constructed", error |-> "none", args |-> args, self |-> args]

IPCInit(highpass, lowpass, order, tr) ==
    LET args == [highpass |-> highpass, lowpass |-> lowpass, order |-> order, tr |-> tr]
    IN  IF highpass < 0 THEN Raised("Highpass must be positive or 0", args)
        ELSE IF lowpass <= 0 THEN Raised("Lowpass must be positive", args)
        ELSE IF order <= 0 THEN Raised("Order must be positive", args)
        ELSE IF highpass >= lowpass THEN Raised("Highpass must be lower than lowpass", args)
        ELSE [state |-> "constructed", error |-> "none", args |-> args, self |-> args]

(***************************************************************************)
(* InstantPhaseConnectivityBase.compute, lines 165-201.                    *)
(***************************************************************************)
\* What aggregate returns: roi_data[t][r] (n_timepoints x n_rois) and the
\* region labels.  A region's series is flat (all zeros) or a ramp.
Columns(T) == {[t \in 1..T |-> 0], [t \in 1..T |-> t]}

Aggregation(T, R, cols) ==
    [data |-> [t \in 1..T |-> [r \in 1..R |-> cols[r][t]]],
     col_names |-> [r \in 1..R |-> 10 + r]]

\* scipy.stats.zscore(roi_data, axis=0): (x - mean) / std per column, which is
\* 0/0 = NaN on a column of zero variance.  A finite score is kept as its
\* numerator T*x - sum(column), the score up to the positive factor T*std.
ZScore(data, T, R) ==
    [t \in 1..T |-> [r \in 1..R |->
        IF \A u \in 1..T : data[u][r] = data[t][r]
        THEN NaN
        ELSE T * data[t][r] - SumTo([u \in 1..T |-> data[u][r]], T)]]

\* float(input["data"].header.get_zooms()[3]): index 3 of the zooms tuple
ZoomLookup(zooms) ==
    IF Len(zooms) < 4
    THEN [raised |-> TRUE, value |-> None]
    ELSE [raised |-> FALSE, value |-> zooms[4]]

\* The phase after butterworth, hilbert and np.angle: NaN where the z-score is
\* NaN (each of the three propagates it), and otherwise the angle `angles`
\* gives, the series' values being abstracted.
Phase(z, T, R, angles) ==
    [t \in 1..T |-> [r \in 1..R |-> IF z[t][r] = NaN THEN NaN ELSE angles[t][r]]]

\* The two phases are added where they are to be subtracted.
CoherenceSum(phi, T, R) ==
    [t \in 1..T |-> [i \in 1..R |-> [j \in 1..R |-> FCos(phi[t][j] + phi[t][i])]]]

\* np.cos(phi[:, None, :] - phi[:, :, None]): entry [t, i, j] is
\* cos(phi[t, j] - phi[t, i]).
Coherence(phi, T, R) ==
    [t \in 1..T |-> [i \in 1..R |-> [j \in 1..R |-> FCos(FSub(phi[t][j], phi[t][i]))]]]

\* The rows are named by their index, not by the labels of aggregate.
PackageRowIndex(iphc, agg) ==
    [data |-> iphc, col_names |-> agg.col_names,
     row_names |-> [r \in DOMAIN agg.col_names |-> r]]

\* out["fc"], lines 194-200
Package(iphc, agg) ==
    [data |-> iphc, col_names |-> agg.col_names, row_names |-> agg.col_names]

\* The stages of compute in the order of its statements: aggregate (165),
\* z-score (170), sampling interval (172-175), filter (178-185), phase (188),
\* coherence (192), packaging (194-201).
Stages == <<"aggregate", "zscore", "tr", "filter", "phase", "coherence", "package">>

\* The sampling interval is settled before the data are aggregated.
StagesRunIntervalFirst(stopped) ==
    IF stopped = "tr" THEN <<"tr">>
    ELSE IF stopped = "sampling_rate" THEN <<"tr", "aggregate", "zscore", "filter">>
    ELSE <<"tr", "aggregate", "zscore", "filter", "phase", "coherence", "package">>

\* The stages entered by a call that stopped at `stopped`: an error of the
\* header lookup ends it in the sampling interval, one of 1 / tr in the
\* filter call, and nothing after the failing statement runs.
StagesRun(stopped) ==
    IF stopped = "tr" THEN SubSeq(Stages, 1, 3)
    ELSE IF stopped = "sampling_rate" THEN SubSeq(Stages, 1, 4)
    ELSE Stages

\* compute writes self.tr back with the interval it used.
SelfAfterComputeStore(self, tr) == [self EXCEPT !.tr = tr]

\* The marker after compute: tr is a local of compute (line 172) and no
\* statement of it assigns an attribute.
SelfAfterCompute(self, tr) == self

NoOut ==
    [status |-> "none", error |-> "none", stage |-> "none", tr |-> None,
     tr_from |-> "none", zooms |-> <<>>, T |-> 0, R |-> 0,
     phi |-> <<>>, agg_names |-> <<>>, trace |-> <<>>,
     data |-> <<>>, col_names |-> <<>>, row_names |-> <<>>]

Failed(error, stage, tr, tr_from, zooms, T, R) ==
    [status |-> "error", error |-> error, stage |-> stage, tr |-> tr,
     tr_from |-> tr_from, zooms |-> zooms, T |-> T, R |-> R,
     phi |-> <<>>, agg_names |-> <<>>, trace |-> StagesRun(stage),
     data |-> <<>>, col_names |-> <<>>, row_names |-> <<>>]

\* The whole of compute on one input: `self` is the marker, agg what aggregate
\* returns for the input, zooms the input header's zooms, angles the phase
\* angles of the finite series.
IPCCompute(self, agg, T, R, zooms, angles) ==
    LET z == ZScore(agg.data, T, R)
        from == IF self.tr = None THEN "header" ELSE "config"
        looked == IF self.tr = None
                  THEN ZoomLookup(zooms)
                  ELSE [raised |-> FALSE, value |-> self.tr]
        tr == looked.value
    IN  IF looked.raised
        THEN Failed("IndexError", "tr", None, from, zooms, T, R)
        ELSE IF tr = 0
        THEN Failed("ZeroDivisionError", "sampling_rate", tr, from, zooms, T, R)
        ELSE LET phi == Phase(z, T, R, angles)
                 fc == Package(Coherence(phi, T, R), agg)
             IN  [status |-> "ok", error |-> "none", stage |-> "returned", tr |-> tr,
                  tr_from |-> from, zooms |-> zooms, T |-> T, R |-> R,
                  phi |-> phi, agg_names |-> agg.col_names,
                  trace |-> StagesRun("returned"),
                  data |-> fc.data, col_names |-> fc.col_names,
                  row_names |-> fc.row_names]

FreqVals == -1..MaxFreq
OrderVals == 0..MaxOrder
TRVals == {None} \cup 0..MaxTR

\* get_zooms() of a 3D image has three entries, of a 4D image four.
ZoomHeaders == {<<1, 1, 1>>} \cup {<<1, 1, 1, z>> : z \in 0..MaxZoom}

\* Phase angles of the grid, in quarter turns.
PhaseVals == {0, 1}

\* The regions whose series is not constant: the ones with a finite phase.
Varying(cols, T, R) == {r \in 1..R : \E t \in 1..T : cols[r][t] # cols[r][1]}

\* A marker is constructed (or its constructor raises) when no result is pending.
Construct(highpass, lowpass, order, tr) ==
    /\ out = NoOut
    /\ marker' = IPCInit(highpass, lowpass, order, tr)
    /\ UNCHANGED <<file_path, cache, last, prev, th, out, bct, bout, single, grab>>

\* compute is called on a constructed marker.
MarkerCompute(T, R, cols, zooms, angles) ==
    /\ marker.state = "constructed"
    /\ out = NoOut
    /\ out' = IPCCompute(marker.self, Aggregation(T, R, cols), T, R, zooms, angles)
    /\ marker' = [marker EXCEPT !.self = SelfAfterCompute(marker.self, out'.tr)]
    /\ UNCHANGED <<file_path, cache, last, prev, th, bct, bout, single, grab>>

\* The driver takes the result (or the error) of the call.
TakeResult ==
    /\ out # NoOut
    /\ out' = NoOut
    /\ UNCHANGED <<file_path, cache, last, prev, th, marker, bct, bout, single, grab>>

(***************************************************************************)
(* BCTPYSpheres (bctpy_spheres.py): the graph metrics of a functional      *)
(* connectivity matrix.                                                    *)
(***************************************************************************)
\* The longest list of metric names a marker is built with.
MaxMetrics == 2

\* _metrics_dict, lines 19-21: the registry of metric functions.
MetricsDict == [n \in {"degrees_und"} |-> "bct.algorithms.degrees_und"]

\* Names a caller may ask for: the registered one and one the registry lacks.
MetricNames == {"degrees_und", "clustering_coef_bu"}

\* The metrics argument of the constructor: a list of names or a single name.
\* A list argument has its names in value, a str argument its text in name.
MetricArgs ==
    {[list |-> TRUE, name |-> "", value |-> l] :
        l \in UNION {[1..n -> MetricNames] : n \in 0..MaxMetrics}}
    \cup {[list |-> FALSE, name |-> n, value |-> <<>>] : n \in MetricNames}

NoArg == [list |-> TRUE, name |-> "", value |-> <<>>]

NoBCT == [state |-> "none", arg |-> NoArg, metrics |-> <<>>, coords |-> 0]

\* The names of l without the repetitions, in the order of first occurrence.
Unique(l) ==
    LET kept == {i \in 1..Len(l) : \A j \in 1..(i - 1) : l[j] # l[i]}
    IN  [k \in 1..Cardinality(kept) |->
            l[CHOOSE i \in kept : Cardinality({j \in kept : j <= i}) = k]]

\* The constructor drops the names that are repeated.
BCTInitUnique(metrics, coords) ==
    [state |-> "constructed", arg |-> metrics,
     metrics |-> IF metrics.list THEN Unique(metrics.value) ELSE <<metrics.name>>,
     coords |-> coords]

\* __init__, lines 77-90: a non-list is wrapped in a list (77-78); the list is
\* stored as given (79).  arg keeps the argument the object was built with.
BCTInit(metrics, coords) ==
    [state |-> "constructed", arg |-> metrics,
     metrics |-> IF metrics.list THEN metrics.value ELSE <<metrics.name>>,
     coords |-> coords]

\* super().compute(input, extra_input), line 139: FunctionalConnectivitySpheres
\* computes the matrix of the input anew on every call.
FCSpheresCompute(self, input) ==
    [data |-> [path |-> input.path, coords |-> self.coords, ok |-> input.ok],
     row_names |-> <<"roi">>, col_names |-> <<"roi">>, matrix_kind |-> "tril",
     runs |-> 1, estimator_calls |-> 0]

\* A name the registry lacks is served by the registered function.
LookupMetricDefault(name) ==
    [raised |-> FALSE, error |-> "none", attached |-> "none",
     fn |-> MetricsDict["degrees_und"]]

\* _metrics_dict[t_metric], line 147: KeyError(t_metric) for a missing key.
LookupMetric(name) ==
    IF name \in DOMAIN MetricsDict
    THEN [raised |-> FALSE, error |-> "none", attached |-> "none",
          fn |-> MetricsDict[name]]
    ELSE [raised |-> TRUE, error |-> "KeyError", attached |-> name, fn |-> "none"]

\* metric(graph), line 148: the function of bct returns its value or raises
\* its own error, which names no metric.
CallMetric(fn, graph) ==
    IF graph.ok
    THEN [raised |-> FALSE, error |-> "none", value |-> [fn |-> fn, of |-> graph]]
    ELSE [raised |-> TRUE, error |-> "MetricError", value |-> [fn |-> fn, of |-> graph]]

\* The loop of lines 145-148 from position i on: vals is out_vals, evaluated
\* lists the names whose function has been called.
RECURSIVE EvalLoop(_, _, _, _, _)
EvalLoop(metrics, i, graph, vals, evaluated) ==
    IF i > Len(metrics)
    THEN [raised |-> FALSE, error |-> "none", attached |-> "none", at |-> 0,
          vals |-> vals, evaluated |-> evaluated]
    ELSE LET look == LookupMetric(metrics[i]) IN
         IF look.raised
         THEN [raised |-> TRUE, error |-> look.error, attached |-> look.attached,
               at |-> i, vals |-> vals, evaluated |-> evaluated]
         ELSE LET r == CallMetric(look.fn, graph) IN
              IF r.raised
              THEN [raised |-> TRUE, error |-> r.error, attached |-> "none",
                    at |-> i, vals |-> vals,
                    evaluated |-> Append(evaluated, metrics[i])]
              ELSE EvalLoop(metrics, i + 1, graph, Append(vals, r.value),
                            Append(evaluated, metrics[i]))

\* The names are looked up before the first function is called.
EvalMetricsValidateFirst(metrics, graph) ==
    IF \E k \in 1..Len(metrics) : metrics[k] \notin DOMAIN MetricsDict
    THEN LET at == CHOOSE k \in 1..Len(metrics) :
                       /\ metrics[k] \notin DOMAIN MetricsDict
                       /\ \A h \in 1..(k - 1) : metrics[h] \in DOMAIN MetricsDict
         IN  [raised |-> TRUE, error |-> "KeyError", attached |-> metrics[at],
              at |-> at, vals |-> <<>>, evaluated |-> <<>>]
    ELSE EvalLoop(metrics, 1, graph, <<>>, <<>>)

\* out_vals = [] and the for loop, lines 145-148
EvalMetrics(metrics, graph) == EvalLoop(metrics, 1, graph, <<>>, <<>>)

\* The columns are named after the keys of the registry.
BCTPackageRegistry(self, out_vals) ==
    [data |-> out_vals, col_names |-> <<"degrees_und">>]

\* out, lines 150-153
BCTPackage(self, out_vals) ==
    [data |-> out_vals, col_names |-> self.metrics]

NoBOut ==
    [status |-> "none", error |-> "none", attached |-> "none", at |-> 0,
     evaluated |-> <<>>, keys |-> {}, data |-> <<>>, col_names |-> <<>>,
     path |-> 0, graph |-> [path |-> 0, coords |-> 0, ok |-> TRUE],
     fc_runs |-> 0, estimator_calls |-> 0, repeat |-> FALSE]

\* compute, lines 138-154. repeat tells that the call before, of the same
\* object, had the same path.
BCTCompute(self, input, repeat) ==
    LET conn_out == FCSpheresCompute(self, input)
        graph == conn_out.data
        loop == EvalMetrics(self.metrics, graph)
        res == BCTPackage(self, loop.vals)
    IN  [status |-> IF loop.raised THEN "error" ELSE "ok",
         error |-> loop.error, attached |-> loop.attached, at |-> loop.at,
         evaluated |-> loop.evaluated,
         keys |-> IF loop.raised THEN {} ELSE DOMAIN res,
         data |-> IF loop.raised THEN <<>> ELSE res.data,
         col_names |-> IF loop.raised THEN <<>> ELSE res.col_names,
         path |-> input.path, graph |-> graph,
         fc_runs |-> conn_out.runs, estimator_calls |-> conn_out.estimator_calls,
         repeat |-> repeat]

\* A BCTPYSpheres object is constructed; it has computed nothing yet.
BCTConstruct(metrics, coords) ==
    /\ bct' = BCTInit(metrics, coords)
    /\ bout' = NoBOut
    /\ UNCHANGED <<file_path, cache, last, prev, th, marker, out, single, grab>>

\* compute is called on the object; ok tells whether the functions of bct
\* accept the matrix of this input.
BCTMarkerCompute(path, ok) ==
    /\ bct.state = "constructed"
    /\ bout' = BCTCompute(bct, [path |-> path, ok |-> ok],
                          bout.status # "none" /\ bout.path = path)
    /\ UNCHANGED <<file_path, cache, last, prev, th, marker, out, bct, single, grab>>

(***************************************************************************)
(* @singleton on BCTPYSpheresEstimator (line 18): the class name is bound  *)
(* to a function that builds the object on its first call and hands the    *)
(* same object out on every later call.                                    *)
(***************************************************************************)
\* The places of the process that construct the estimator.
NumUsers == 2

Users == 1..NumUsers

NoSingle == [registry |-> None, made |-> 0, refs |-> [u \in Users |-> None]]

\* Every call builds an object of its own.
SingletonGetFresh(reg) == [instance |-> reg.made + 1, init |-> TRUE]

\* One call of BCTPYSpheresEstimator(): init tells whether __init__ runs.
SingletonGet(reg) ==
    IF reg.registry = None
    THEN [instance |-> reg.made + 1, init |-> TRUE]
    ELSE [instance |-> reg.registry, init |-> FALSE]

\* User u constructs the estimator; __init__ (lines 30-31), when it runs, sets
\* _file_path of the object to None.  The cache belongs to the function
\* _compute of the class and is not touched.
Instantiate(u) ==
    LET g == SingletonGet(single)
    IN  /\ single.refs[u] = None
        /\ single' = [registry |-> g.instance,
                      made |-> IF g.init THEN single.made + 1 ELSE single.made,
                      refs |-> [single.refs EXCEPT ![u] = g.instance]]
        /\ file_path' = IF g.init THEN None ELSE file_path
        /\ UNCHANGED <<cache, last, prev, th, marker, out, bct, bout, grab>>

\* User u calls fit_transform on the object it holds.
Use(u, bold_path, bold_data, params) ==
    /\ single.refs[u] # None
    /\ FitTransform(bold_path, bold_data, params)

(***************************************************************************)
(* The data grabber HCPD (datagrabber/hcp_d.py).                           *)
(***************************************************************************)
\* The longest list of tasks or of phase encodings a grabber is built with.
MaxList == 2

\* all_tasks, lines 50-56
HCPDTasks == <<"REST1", "REST2", "CARIT", "EMOTION", "GUESSING">>

\* all_phase_encodings, line 74
HCPDPhaseEncodings == <<"PA", "AP">>

\* Task names a caller may pass: two of the dataset, the name the files of the
\* EMOTION task carry on disk, and a task of another dataset.
TaskInputs == {"REST1", "EMOTION", "tfMRI_EMOTION", "MOTOR"}

\* Phase encodings a caller may pass: the two of HCP-D and one of HCP-YA.
PhaseInputs == {"PA", "AP", "LR"}

\* An argument that is None, a str (in name) or a list of str (in value).
ListArgs(names) ==
    {[kind |-> "none", name |-> "", value |-> <<>>]}
    \cup {[kind |-> "str", name |-> n, value |-> <<>>] : n \in names}
    \cup {[kind |-> "list", name |-> "", value |-> l] :
             l \in UNION {[1..n -> names] : n \in 0..MaxList}}

NoListArg == [kind |-> "none", name |-> "", value |-> <<>>]

NoHCPD ==
    [state |-> "none", error |-> "none", tasks_arg |-> NoListArg,
     phase_arg |-> NoListArg, tasks |-> <<>>, phase_encodings |-> <<>>]

HCPDRaised(tasks, phase_encodings) ==
    [state |-> "error", error |-> "ValueError", tasks_arg |-> tasks,
     phase_arg |-> phase_encodings, tasks |-> <<>>, phase_encodings |-> <<>>]

\* Of a list of tasks only the first is checked.
HCPDInitFirstOnly(tasks, phase_encodings) ==
    LET t == IF tasks.kind = "none" THEN HCPDTasks
             ELSE IF tasks.kind = "list" THEN tasks.value ELSE <<tasks.name>>
        p == IF phase_encodings.kind = "none" THEN HCPDPhaseEncodings
             ELSE IF phase_encodings.kind = "str" THEN <<phase_encodings.name>>
             ELSE phase_encodings.value
    IN  IF Len(t) >= 1 /\ t[1] \notin Range(HCPDTasks)
        THEN HCPDRaised(tasks, phase_encodings)
        ELSE IF \E i \in 1..Len(p) : p[i] \notin Range(HCPDPhaseEncodings)
        THEN HCPDRaised(tasks, phase_encodings)
        ELSE [state |-> "constructed", error |-> "none", tasks_arg |-> tasks,
              phase_arg |-> phase_encodings, tasks |-> t, phase_encodings |-> p]

\* __init__, lines 49-89: None gives all tasks (58-59); a non-list is wrapped
\* (62-63); each task is checked (65-70); None gives both phase encodings
\* (76-77); a str is wrapped (79-80); each phase encoding is checked (82-88).
\* raise_error raises ValueError.
HCPDInit(tasks, phase_encodings) ==
    LET t == IF tasks.kind = "none" THEN HCPDTasks
             ELSE IF tasks.kind = "list" THEN tasks.value ELSE <<tasks.name>>
        p == IF phase_encodings.kind = "none" THEN HCPDPhaseEncodings
             ELSE IF phase_encodings.kind = "str" THEN <<phase_encodings.name>>
             ELSE phase_encodings.value
    IN  IF \E i \in 1..Len(t) : t[i] \notin Range(HCPDTasks)
        THEN HCPDRaised(tasks, phase_encodings)
        ELSE IF \E i \in 1..Len(p) : p[i] \notin Range(HCPDPhaseEncodings)
        THEN HCPDRaised(tasks, phase_encodings)
        ELSE [state |-> "constructed", error |-> "none", tasks_arg |-> tasks,
              phase_arg |-> phase_encodings, tasks |-> t, phase_encodings |-> p]

\* The entries datadir may hold: <subject>_<visit>.
HCPDEntries ==
    {[subject |-> "HCD1", visit |-> "V1_MR"], [subject |-> "HCD2", visit |-> "V1_MR"],
     [subject |-> "HCD1", visit |-> "V2_MR"]}

\* What iterdir yields: some of the entries, each once, in some order.
Listings(entries) ==
    UNION {{l \in [1..n -> entries] : \A i, j \in 1..n : l[i] = l[j] => i = j} :
              n \in 0..Cardinality(entries)}

\* x.name.split("_")[0] for the entries with "V1_MR" in the name, lines 178-182
HCPDSubjects(listing) ==
    LET IsV1(x) == x.visit = "V1_MR"
        kept == SelectSeq(listing, IsV1)
    IN  [i \in 1..Len(kept) |-> kept[i].subject]

\* itertools.product(a, b, c): the triples in lexicographic order of position.
Product3(a, b, c) ==
    [k \in 1..(Len(a) * Len(b) * Len(c)) |->
        <<a[((k - 1) \div (Len(b) * Len(c))) + 1],
          b[(((k - 1) \div Len(c)) % Len(b)) + 1],
          c[((k - 1) % Len(c)) + 1]>>]

\* if task == "tfMRI_EMOTION" and phase_encoding == "AP": continue (187-189)
HCPDSkip(task, phase_encoding) ==
    task = "tfMRI_EMOTION" /\ phase_encoding = "AP"

\* get_elements, lines 178-192
HCPDGetElements(self, listing) ==
    LET Kept(e) == ~HCPDSkip(e[2], e[3])
    IN  SelectSeq(Product3(HCPDSubjects(listing), self.tasks, self.phase_encodings), Kept)

NoElems == [called |-> FALSE, listing |-> <<>>, elems |-> <<>>]

\* all_tasks of HCPCATConfounds.__init__, hcp_ya_confounds_cat.py lines 91-101
YATasks ==
    <<"REST1", "REST2", "SOCIAL", "WM", "RELATIONAL", "EMOTION", "LANGUAGE",
      "GAMBLING", "MOTOR">>

\* all_phase_encodings, hcp_ya_confounds_cat.py line 120
YAPhaseEncodings == <<"LR", "RL">>

\* all_tasks of HCP_YA_Concatenated.__getitem__, hcp_ya_concatenated.py 48-56
YAConcatTasks ==
    <<"SOCIAL", "WM", "RELATIONAL", "EMOTION", "LANGUAGE", "GAMBLING", "MOTOR">>

\* all_pe, hcp_ya_concatenated.py line 57
YAConcatPE == <<"LR", "RL">>

NoYA ==
    [state |-> "none", tasks |-> <<>>, phase_encodings |-> <<>>,
     item_called |-> FALSE, subject |-> "", runs |-> <<>>,
     elems_called |-> FALSE, listing |-> <<>>, elems |-> <<>>]

\* HCP_YA_Concatenated.__init__ (37-40) passes tasks=None and
\* phase_encodings=None on: the grabbers are configured with every task
\* (hcp_ya_confounds_cat.py 103-104) and both phase encodings (122-123).
YAInit ==
    [NoYA EXCEPT !.state = "constructed", !.tasks = YATasks,
                 !.phase_encodings = YAPhaseEncodings]

\* __getitem__, lines 58-60: one super().__getitem__((subject, task, pe)) per
\* task of all_tasks and phase encoding of all_pe, tasks outermost.
YAGetItemRuns(subject) == Product3(<<subject>>, YAConcatTasks, YAConcatPE)

\* The entries the confounds dataset may hold.
YAEntries ==
    {[name |-> "sub-100307", is_dir |-> TRUE], [name |-> "sub-100408", is_dir |-> TRUE],
     [name |-> ".git", is_dir |-> TRUE], [name |-> "sub-notes.txt", is_dir |-> FALSE]}

\* "sub" in x.name
HasSub(name) == name \in {"sub-100307", "sub-100408", "sub-notes.txt"}

\* x.name.split("-")[1]
SplitSecond(name) ==
    CASE name = "sub-100307" -> "100307"
      [] name = "sub-100408" -> "100408"
      [] name = "sub-notes.txt" -> "notes.txt"

\* HCPCATConfounds.get_elements, hcp_ya_confounds_cat.py lines 215-226
YAAllElements(self, listing) ==
    LET IsSubject(x) == x.is_dir /\ HasSub(x.name)
        kept == SelectSeq(listing, IsSubject)
        subjects == [i \in 1..Len(kept) |-> SplitSecond(kept[i].name)]
    IN  Product3(subjects, self.tasks, self.phase_encodings)

\* The lists that hold each member of the set S once: a set has no order.
Orderings(S) ==
    {l \in [1..Cardinality(S) -> S] : \A i, j \in 1..Cardinality(S) : l[i] = l[j] => i = j}

\* get_elements, lines 42-44: list({element[0] for element in all_elements})
YAGetElements(self, listing) ==
    LET all_elements == YAAllElements(self, listing)
    IN  Orderings({all_elements[k][1] : k \in 1..Len(all_elements)})

NoGrab == [hcpd |-> NoHCPD, elems |-> NoElems, ya |-> NoYA]

\* An HCPD grabber is constructed, or its constructor raises.
HCPDConstruct(tasks, phase_encodings) ==
    /\ grab.hcpd.state = "none"
    /\ grab' = [grab EXCEPT !.hcpd = HCPDInit(tasks, phase_encodings)]
    /\ UNCHANGED <<file_path, cache, last, prev, th, marker, out, bct, bout, single>>

\* get_elements is called while datadir holds the entries of listing.
HCPDListElements(listing) ==
    /\ grab.hcpd.state = "constructed"
    /\ grab' = [grab EXCEPT !.elems = [called |-> TRUE, listing |-> listing,
                                       elems |-> HCPDGetElements(grab.hcpd, listing)]]
    /\ UNCHANGED <<file_path, cache, last, prev, th, marker, out, bct, bout, single>>

\* The subjects a caller asks for.
YASubjects == {"100307", "100408"}

\* An HCP_YA_Concatenated grabber is constructed.
YAConstruct ==
    /\ grab.ya.state = "none"
    /\ grab' = [grab EXCEPT !.ya = YAInit]
    /\ UNCHANGED <<file_path, cache, last, prev, th, marker, out, bct, bout, single>>

\* grabber[subject]
YAGetItem(subject) ==
    /\ grab.ya.state = "constructed"
    /\ grab' = [grab EXCEPT !.ya.item_called = TRUE, !.ya.subject = subject,
                            !.ya.runs = YAGetItemRuns(subject)]
    /\ UNCHANGED <<file_path, cache, last, prev, th, marker, out, bct, bout, single>>

\* get_elements is called while the dataset holds the entries of listing.
YAListElements(listing) ==
    /\ grab.ya.state = "constructed"
    /\ \E elems \in YAGetElements(grab.ya, listing) :
           grab' = [grab EXCEPT !.ya.elems_called = TRUE, !.ya.listing = listing,
                                !.ya.elems = elems]
    /\ UNCHANGED <<file_path, cache, last, prev, th, marker, out, bct, bout, single>>

(***************************************************************************)
(* Initial state: __init__ sets _file_path to None (line 31); the cache of *)
(* the wrapper is empty; no call has been made; no marker exists.          *)
(***************************************************************************)
Init ==
    /\ file_path = None
    /\ cache = {}
    /\ last = NoCall
    /\ prev = NoCall
    /\ th = [t \in Threads |-> Idle]
    /\ marker = NoMarker
    /\ out = NoOut
    /\ bct = NoBCT
    /\ bout = NoBOut
    /\ single = NoSingle
    /\ grab = NoGrab

Next ==
    \E p \in Paths, d \in Data, k \in ParamSets : FitTransform(p, d, k)

Spec == Init /\ [][Next]_vars

NextConc ==
    \E t \in Threads :
        \/ \E p \in Paths, d \in Data, k \in ParamSets : Begin(t, p, d, k)
        \/ Check(t)
        \/ Clear(t)
        \/ Record(t)
        \/ Compute(t)

SpecConc == Init /\ [][NextConc]_vars

NextIPC ==
    \/ \E hp \in FreqVals, lp \in FreqVals, o \in OrderVals, tr \in TRVals :
           Construct(hp, lp, o, tr)
    \/ /\ out = NoOut
       /\ \E T \in 2..MaxT, R \in 1..MaxR :
              \E cols \in [1..R -> Columns(T)], zooms \in ZoomHeaders :
                  \E angles \in [1..T -> [Varying(cols, T, R) -> PhaseVals]] :
                      MarkerCompute(T, R, cols, zooms, angles)
    \/ TakeResult

SpecIPC == Init /\ [][NextIPC]_vars

NextBCT ==
    \/ \E metrics \in MetricArgs, coords \in 1..NumCoords : BCTConstruct(metrics, coords)
    \/ \E p \in Paths, ok \in BOOLEAN : BCTMarkerCompute(p, ok)

SpecBCT == Init /\ [][NextBCT]_vars

NextSingle ==
    \/ \E u \in Users : Instantiate(u)
    \/ \E u \in Users, p \in Paths, d \in Data, k \in ParamSets : Use(u, p, d, k)

SpecSingle == Init /\ [][NextSingle]_vars

NextHCPD ==
    \/ \E tasks \in ListArgs(TaskInputs), pes \in ListArgs(PhaseInputs) :
           HCPDConstruct(tasks, pes)
    \/ \E listing \in Listings(HCPDEntries) : HCPDListElements(listing)

SpecHCPD == Init /\ [][NextHCPD]_vars

NextYA ==
    \/ YAConstruct
    \/ \E subject \in YASubjects : YAGetItem(subject)
    \/ \E listing \in Listings(YAEntries) : YAListElements(listing)

SpecYA == Init /\ [][NextYA]_vars

(***************************************************************************)
(* The estimator under a sequential driver (Spec).                         *)
(***************************************************************************)
SameRequest(a, b) == a.valid /\ b.valid /\ a.path = b.path /\ a.params = b.params

\* C1: of two successive fit_transform calls with the same path and the same
\* parameters, the second returns what the first returned and does not call
\* the wrapped computation again.
C1_CacheHit ==
    SameRequest(prev, last) =>
        /\ ~prev.raised
        /\ ~last.raised
        /\ last.value = prev.value
        /\ ~last.invoked

\* C2: every result a call returns was computed under the call's own path, and
\* a call whose path differs from the recorded one invalidates, recomputes and
\* returns the result computed for its own path.
C2_NoStaleResult ==
    /\ (last.valid /\ ~last.raised) => last.source = last.path
    /\ (last.valid /\ last.changed) =>
           /\ file_path = last.path
           /\ last.invoked
           /\ ~last.raised
           /\ last.source = last.path

C4_NoNegativeCaching ==
    /\ (last.valid /\ last.invoked /\ last.raised) =>
           ~Cached(cache, LruKey(last.data, last.params))
    /\ (SameRequest(prev, last) /\ prev.invoked /\ prev.raised) => last.invoked

\* The same request was made twice and the wrapped computation failed both times.
C4_Witness ==
    /\ SameRequest(prev, last)
    /\ prev.data = last.data
    /\ prev.invoked /\ prev.raised
    /\ last.invoked /\ last.raised
    /\ ~last.changed

(***************************************************************************)
(* The estimator called from several threads (SpecConc).                   *)
(***************************************************************************)
\* C5: check, clear, record, compute and store are one critical section: while
\* a caller is about to compute and store, the recorded path is still its own.
C5_AtomicSection ==
    \A t \in Threads : th[t].pc = "compute" => file_path = th[t].path

(***************************************************************************)
(* The phase-coherence marker (SpecIPC).                                   *)
(***************************************************************************)
Rejected(a) ==
    a.highpass < 0 \/ a.lowpass <= 0 \/ a.order <= 0 \/ a.highpass >= a.lowpass

\* C6: the constructor raises exactly when highpass < 0, lowpass <= 0,
\* order <= 0 or highpass >= lowpass, and it raises before anything is computed.
C6_FilterValidation ==
    /\ marker.state = "error" => (Rejected(marker.args) /\ out = NoOut)
    /\ marker.state = "constructed" => (~Rejected(marker.args) /\ marker.self = marker.args)

\* The constructor has raised on highpass = lowpass, both positive.
C6_Witness ==
    /\ marker.state = "error"
    /\ marker.args.highpass = marker.args.lowpass
    /\ marker.args.highpass > 0
    /\ marker.args.order > 0

\* C7: no compute call of a constructed marker fails on a value of the
\* marker's configuration.
C7_ConfigErrorsOnlyAtConstruction ==
    ~(out.status = "error" /\ out.tr_from = "config")

\* A zoom is usable when the header has a fourth one and it lies in the range
\* of repetition times; the largest zoom of the model stands for a value out
\* of that range.
UsableZoom(zooms) == Len(zooms) >= 4 /\ zooms[4] \in 1..(MaxZoom - 1)

\* C8: with no tr given and no usable fourth zoom in the header, compute fails
\* where the sampling interval is looked up or used, and returns nothing.
C8_MissingMetadataSurfaced ==
    (out.tr_from = "header" /\ ~UsableZoom(out.zooms)) =>
        /\ out.status = "error"
        /\ out.stage \in {"tr", "sampling_rate"}

\* C9: every diagonal entry [t, i, i] of a returned tensor is exactly 1.0.
C9_DiagonalOne ==
    out.status = "ok" =>
        \A t \in 1..out.T, i \in 1..out.R : FEq(out.data[t][i][i], 1)

\* C10: every returned tensor is symmetric: [t, i, j] equals [t, j, i].
C10_Symmetric ==
    out.status = "ok" =>
        \A t \in 1..out.T, i \in 1..out.R, j \in 1..out.R :
            FEq(out.data[t][i][j], out.data[t][j][i])

\* C11: a returned tensor has shape (T, R, R) and its entry [t, i, j] is
\* cos(phase[t, i] - phase[t, j]) of the same timepoint t, for every ordered
\* pair: nothing is averaged over time, smoothed or thresholded.
C11_PairwiseUnreduced ==
    out.status = "ok" =>
        /\ Len(out.data) = out.T
        /\ \A t \in 1..out.T :
               /\ Len(out.data[t]) = out.R
               /\ \A i \in 1..out.R :
                      /\ Len(out.data[t][i]) = out.R
                      /\ \A j \in 1..out.R :
                             out.data[t][i][j] = FCos(FSub(out.phi[t][i], out.phi[t][j]))

\* A tensor was returned for two regions whose phases differ at one timepoint
\* and agree at another.
C11_Witness ==
    /\ out.status = "ok"
    /\ out.R >= 2
    /\ \E t \in 1..out.T : out.data[t][1][2] = 0
    /\ \E t \in 1..out.T : out.data[t][1][2] = 1

\* C12: row_names and col_names of a result are both the col_names aggregate
\* returned, in the same order, one per region of the tensor.
C12_LabelPreservation ==
    out.status = "ok" =>
        /\ out.col_names = out.agg_names
        /\ out.row_names = out.agg_names
        /\ Len(out.col_names) = out.R
        /\ \A t \in 1..out.T : Len(out.data[t]) = Len(out.row_names)

\* A result with more than one region label was returned.
C12_Witness ==
    /\ out.status = "ok"
    /\ Len(out.row_names) >= 2
    /\ out.row_names[1] # out.row_names[2]

(***************************************************************************)
(* The graph-metric marker (SpecBCT).                                      *)
(***************************************************************************)
\* The positions of the requested names the registry lacks.
UnknownAt == {k \in 1..Len(bct.metrics) : bct.metrics[k] \notin DOMAIN MetricsDict}

\* The first of them.
FirstUnknown == CHOOSE k \in UnknownAt : \A h \in UnknownAt : k <= h

C16_MetricFailure ==
    bout.error = "MetricError" =>
        /\ Len(bout.evaluated) = bout.at
        /\ bout.keys = {}
        /\ bout.attached = bct.metrics[bout.at]

\* C17: compute gets its connectivity matrix from the estimator, so the second
\* of two successive calls on one path runs no connectivity computation.
C17_UsesEstimator ==
    (bout.status # "none" /\ bout.repeat) =>
        /\ bout.estimator_calls = 1
        /\ bout.fc_runs = 0

\* C18: a returned result has the keys data, row_names, col_names and
\* matrix_kind.
C18_ResultKeys ==
    bout.status = "ok" =>
        {"data", "row_names", "col_names", "matrix_kind"} \subseteq bout.keys

(***************************************************************************)
(* The estimator again (Spec): what a call leaves alone, what it logs.     *)
(***************************************************************************)
\* C19: a fit_transform call whose path is the recorded one leaves _file_path
\* as it was, removes no cache entry and adds none but the one of its request,
\* so that after two calls in a row on one path the cache holds the entry of
\* each of the two parameter sets.
C19_AccumulationFrame ==
    (/\ last.valid /\ prev.valid
     /\ last.recorded = last.path
     /\ prev.path = last.path
     /\ Hashable(prev.params) /\ Hashable(last.params)) =>
        /\ file_path = last.recorded
        /\ \A e \in cache : e.key \in {LruKey(prev.data, prev.params),
                                       LruKey(last.data, last.params)}
        /\ Cached(cache, LruKey(prev.data, prev.params))
        /\ Cached(cache, LruKey(last.data, last.params))

\* The positions of a step in the steps of the last call.
StepAt(name) == {k \in 1..Len(last.steps) : last.steps[k] = name}

\* C20: a call that finds a path other than the recorded one logs the removal
\* notice, once, before _compute is called, and no other notice; a call that
\* finds the recorded path logs the 'using cache' notice, once, and no removal
\* notice.
C20_InvalidationNotice ==
    last.valid =>
        /\ last.recorded # last.path =>
               /\ Cardinality(StepAt("removing")) = 1
               /\ StepAt("using") = {}
               /\ \A k \in StepAt("removing"), c \in StepAt("compute") : k < c
        /\ last.recorded = last.path =>
               /\ Cardinality(StepAt("using")) = 1
               /\ StepAt("removing") = {}

\* A call that logged the removal was followed by one that logged the use.
C20_Witness ==
    /\ last.valid /\ prev.valid
    /\ StepAt("using") # {}
    /\ prev.notice = "removing"
    /\ prev.recorded # None

\* C21: the key of a call is made of the computation parameters alone: two
\* successive calls with the same path and parameters use one key and the
\* second is a hit, whatever data object each of them passes.
C21_KeyIgnoresData ==
    (SameRequest(prev, last) /\ prev.data # last.data /\ Hashable(last.params)) =>
        /\ LruKey(prev.data, prev.params) = LruKey(last.data, last.params)
        /\ ~last.invoked

C24_IntervalSelection ==
    out.status # "none" =>
        /\ out.tr_from = (IF marker.self.tr = None THEN "header" ELSE "config")
        /\ out.tr_from = "config" => out.tr = marker.self.tr
        /\ (out.tr_from = "header" /\ Len(out.zooms) >= 4) => out.tr = out.zooms[4]
        /\ marker.self.tr = marker.args.tr

\* A marker built without tr has computed with the interval of the header.
C24_Witness ==
    /\ out.status = "ok"
    /\ out.tr_from = "header"
    /\ marker.self.tr = None
    /\ out.tr = out.zooms[4]

(***************************************************************************)
(* The estimator (Spec): the first call, and a call that fails.            *)
(***************************************************************************)
\* C25: the first fit_transform call of an estimator finds no recorded path:
\* it logs the removal, clears the cache and records its path, in that
\* order, and then runs the wrapped computation.
C25_FirstCall ==
    (last.valid /\ ~prev.valid) =>
        /\ last.recorded = None
        /\ last.changed
        /\ last.steps = <<"removing", "cache_clear", "record", "compute">>
        /\ file_path = last.path
        /\ last.invoked
        /\ ~last.raised

C27_MetricsNormalised ==
    bct.state = "constructed" =>
        /\ ~bct.arg.list => bct.metrics = <<bct.arg.name>>
        /\ bct.arg.list => bct.metrics = bct.arg.value
        /\ bout.status = "ok" =>
               /\ bout.col_names = bct.metrics
               /\ Len(bout.col_names) = (IF bct.arg.list THEN Len(bct.arg.value) ELSE 1)

\* A marker built with a single name, not a list, has returned a result.
C27_Witness ==
    /\ bct.state = "constructed"
    /\ ~bct.arg.list
    /\ bout.status = "ok"
    /\ Len(bout.col_names) = 1

(***************************************************************************)
(* The data grabber HCPD (SpecHCPD).                                       *)
(***************************************************************************)
\* How often the triple e occurs in the list of elements returned.
Occurrences(e) ==
    Cardinality({k \in 1..Len(grab.elems.elems) : grab.elems.elems[k] = e})

\* C28: the list get_elements returns holds no element (subject, EMOTION, AP)
\* and holds every other combination of a subject of datadir, a configured
\* task and a configured phase encoding exactly once.
C28_SkipsEmotionAP ==
    grab.elems.called =>
        \A s \in Range(HCPDSubjects(grab.elems.listing)),
           t \in Range(grab.hcpd.tasks), p \in Range(grab.hcpd.phase_encodings) :
            Occurrences(<<s, t, p>>) = (IF t = "EMOTION" /\ p = "AP" THEN 0 ELSE 1)

\* The names an argument asks for.
Asked(arg) ==
    IF arg.kind = "str" THEN {arg.name}
    ELSE IF arg.kind = "list" THEN Range(arg.value) ELSE {}

\* C29: the constructor raises ValueError exactly when a task or a phase
\* encoding asked for is not an allowed one; otherwise None selects all five
\* tasks (both phase encodings), a single string becomes a list of one, a
\* list is taken as it is, and what is stored is within the allowed sets.
C29_ConstructorValidation ==
    LET h == grab.hcpd
        bad == \/ Asked(h.tasks_arg) \ Range(HCPDTasks) # {}
               \/ Asked(h.phase_arg) \ Range(HCPDPhaseEncodings) # {}
    IN  h.state # "none" =>
            /\ bad => (h.state = "error" /\ h.error = "ValueError")
            /\ ~bad =>
                   /\ h.state = "constructed"
                   /\ h.tasks = (IF h.tasks_arg.kind = "none"
                                 THEN <<"REST1", "REST2", "CARIT", "EMOTION", "GUESSING">>
                                 ELSE IF h.tasks_arg.kind = "str"
                                 THEN <<h.tasks_arg.name>> ELSE h.tasks_arg.value)
                   /\ h.phase_encodings = (IF h.phase_arg.kind = "none"
                                           THEN <<"PA", "AP">>
                                           ELSE IF h.phase_arg.kind = "str"
                                           THEN <<h.phase_arg.name>>
                                           ELSE h.phase_arg.value)
                   /\ Range(h.tasks) \subseteq Range(HCPDTasks)
                   /\ Range(h.phase_encodings) \subseteq {"PA", "AP"}

\* One constructor call was refused for a bad second task of a list.
C29_Witness ==
    /\ grab.hcpd.state = "error"
    /\ grab.hcpd.tasks_arg.kind = "list"
    /\ Len(grab.hcpd.tasks_arg.value) = 2
    /\ grab.hcpd.tasks_arg.value[1] = "REST1"
    /\ grab.hcpd.tasks_arg.value[2] = "MOTOR"

(***************************************************************************)
(* The data grabber HCP_YA_Concatenated (SpecYA).                          *)
(***************************************************************************)
\* C30: grabber[subject] fetches exactly one run for every task the grabber
\* is configured with and every phase encoding, and nothing else, and
\* get_elements returns each subject of the dataset exactly once.
C30_ConcatenatesAll ==
    LET ya == grab.ya
    IN  /\ ya.item_called =>
               /\ \A t \in Range(ya.tasks), p \in Range(ya.phase_encodings) :
                      Cardinality({k \in 1..Len(ya.runs) :
                                      ya.runs[k] = <<ya.subject, t, p>>}) = 1
               /\ Len(ya.runs) = Len(ya.tasks) * Len(ya.phase_encodings)
        /\ ya.elems_called =>
               \A i, j \in 1..Len(ya.elems) : ya.elems[i] = ya.elems[j] => i = j

====
